---- MODULE Spec2Model ----
(***************************************************************************)
(* Provider network resource management of the OpenStack operator          *)
(* (openstack-operator/src/resources/provider_network.py).                 *)
(*                                                                         *)
(* The cloud behind OpenStackClient is a record of networks and subnets.   *)
(* Python dicts are functions with a set of string keys as DOMAIN, so that *)
(* `"k" in spec` is "k" \in DOMAIN spec and spec.get is the operator Get.  *)
(* A lookup that may return None returns a sequence of zero or one element.*)
(***************************************************************************)
EXTENDS Integers, Sequences, FiniteSets, TLC

VARIABLES
    cloud,    \* the networks and subnets held by OpenStack
    op,       \* the function of the module that ran last ("none": back in the caller)
    arg,      \* its arguments
    pre,      \* the cloud when it was called
    ok,       \* TRUE when it returned, FALSE when it raised
    ret,      \* its return value when it returned
    calls,    \* the mutating client calls it made, in order
    first,    \* when it repeats the call before it: what that call returned and made
    procs     \* interleaved ensure_provider_network invocations (SpecConc)

vars == <<cloud, op, arg, pre, ok, ret, calls, first, procs>>

---------------------------------------------------------------------------
(* Bounds of the model *)

MaxNetIds == 2      \* networks ever created
MaxSubIds == 3      \* subnets ever created

NetIds == 1..MaxNetIds
SubIds == 1..MaxSubIds

NetNames == {"n1", "n2"}

---------------------------------------------------------------------------
(* Python helpers *)

\* dict.get(k, default)
Get(d, k, default) == IF k \in DOMAIN d THEN d[k] ELSE default

\* [{"start": p["start"], "end": p["end"]} for p in pools]
StartEndPairs(pools) ==
    [i \in 1..Len(pools) |-> [start |-> pools[i]["start"], end |-> pools[i]["end"]]]

\* the smallest element of a non-empty set of integers
Min(S) == CHOOSE x \in S : \A y \in S : x <= y

\* the elements of a set of integers as an ascending list
RECURSIVE Ascending(_)
Ascending(S) == IF S = {} THEN <<>> ELSE <<Min(S)>> \o Ascending(S \ {Min(S)})

---------------------------------------------------------------------------
(* The OpenStack client: what each call does to the cloud *)

\* what Neutron fills in when create_subnet is given no value
DefaultDns == <<>>
DefaultPools == <<[start |-> "p2", end |-> "p254"]>>

EmptyCloud == [networks |-> {}, subnets |-> {}, nextNet |-> 1, nextSub |-> 1]

\* client.get_network_by_name(name): the network of that name, or None
GetNetworkByName(c, name) ==
    LET found == {n \in c.networks : n.name = name}
    IN  IF found = {} THEN <<>>
        ELSE <<CHOOSE n \in found : \A m \in found : n.id <= m.id>>

\* client.get_subnet(name, network_id): the subnet of that name on the network, or None
GetSubnet(c, name, network_id) ==
    LET found == {s \in c.subnets : s.name = name /\ s.network_id = network_id}
    IN  IF found = {} THEN <<>>
        ELSE <<CHOOSE s \in found : \A t \in found : s.id <= t.id>>

\* client.list_subnets(network_id)
ListSubnets(c, network_id) ==
    LET on == {s \in c.subnets : s.network_id = network_id}
        ids == Ascending({s.id : s \in on})
    IN  [i \in 1..Len(ids) |-> CHOOSE s \in on : s.id = ids[i]]

\* client.create_provider_network(name=..., network_type=..., ...): a new network
\* under a fresh id (the other keyword arguments are stored and never read back)
NewNetwork(c, name, network_type) ==
    [id |-> c.nextNet, name |-> name, network_type |-> network_type]

CreateProviderNetwork(c, name, network_type) ==
    [c EXCEPT !.networks = @ \cup {NewNetwork(c, name, network_type)}, !.nextNet = @ + 1]

\* client.create_subnet_with_pools(...): a new subnet under a fresh id
NewSubnet(c, name, network_id, cidr, enable_dhcp, dns_nameservers, allocation_pools) ==
    [id |-> c.nextSub, name |-> name, network_id |-> network_id, cidr |-> cidr,
     is_dhcp_enabled |-> enable_dhcp,
     dns_nameservers |-> IF dns_nameservers = <<>> THEN DefaultDns ELSE dns_nameservers[1],
     allocation_pools |-> IF allocation_pools = <<>> THEN DefaultPools ELSE allocation_pools[1]]

CreateSubnetWithPools(c, name, network_id, cidr, enable_dhcp, dns_nameservers, allocation_pools) ==
    [c EXCEPT !.subnets = @ \cup {NewSubnet(c, name, network_id, cidr, enable_dhcp,
                                             dns_nameservers, allocation_pools)},
              !.nextSub = @ + 1]

\* client.update_subnet(subnet_id, **kwargs): sets the given attributes
UpdateSubnet(c, subnet_id, kwargs) ==
    [c EXCEPT !.subnets =
        {IF s.id = subnet_id
            THEN [k \in DOMAIN s |-> IF k \in DOMAIN kwargs THEN kwargs[k] ELSE s[k]]
            ELSE s : s \in @}]

\* client.delete_subnet(subnet_id)
DeleteSubnet(c, subnet_id) ==
    [c EXCEPT !.subnets = {s \in @ : s.id # subnet_id}]

\* client.delete_network(network_id): the network goes, and its subnets with it
DeleteNetwork(c, network_id) ==
    [c EXCEPT !.networks = {n \in @ : n.id # network_id},
              !.subnets = {s \in @ : s.network_id # network_id}]

---------------------------------------------------------------------------
(* provider_network.py *)

\* An outcome of a function of the module: the cloud it leaves, whether it
\* returned (ok) or raised, its return value, the mutating client calls made.
Outcome(c, o, r, cs) == [cloud |-> c, ok |-> o, ret |-> r, calls |-> cs]

\* _get_subnet_statuses(client, network_id)
GetSubnetStatuses(c, network_id) ==
    LET subnets == ListSubnets(c, network_id)
    IN  [i \in 1..Len(subnets) |-> [name |-> subnets[i].name, subnetId |-> subnets[i].id]]

\* _ensure_subnet: allocation_pools is None unless the spec has allocationPools
EnsureSubnetPools(spec) ==
    IF "allocationPools" \in DOMAIN spec
        THEN <<StartEndPairs(spec["allocationPools"])>>
        ELSE <<>>

\* _ensure_subnet(client, network_id, spec); `raises` tells whether
\* create_subnet_with_pools raises when it is called
EnsureSubnet(c, network_id, spec, raises) ==
    LET name == spec["name"]
        cidr == spec["cidr"]
        existing == GetSubnet(c, name, network_id)
        enable_dhcp == Get(spec, "enableDhcp", TRUE)
        dns_nameservers == IF "dnsNameservers" \in DOMAIN spec
                              THEN <<spec["dnsNameservers"]>> ELSE <<>>
        allocation_pools == EnsureSubnetPools(spec)
        call == [call |-> "create_subnet_with_pools", name |-> name,
                 network_id |-> network_id, raised |-> raises]
        subnet == NewSubnet(c, name, network_id, cidr, enable_dhcp,
                            dns_nameservers, allocation_pools)
    IN  IF existing # <<>>
            THEN Outcome(c, TRUE, [name |-> name, subnetId |-> existing[1].id], <<>>)
        ELSE IF raises
            THEN Outcome(c, FALSE, <<>>, <<call>>)
        ELSE Outcome(CreateSubnetWithPools(c, name, network_id, cidr, enable_dhcp,
                                           dns_nameservers, allocation_pools),
                     TRUE, [name |-> name, subnetId |-> subnet.id], <<call>>)

\* ensure_provider_network, lines 50-54: the loop over spec.get("subnets", []).
\* The mutating call number failAt of the invocation raises (0: none does).
RECURSIVE EnsureSubnets(_, _, _, _, _, _, _)
EnsureSubnets(c, network_id, subnet_specs, i, subnets_status, made, failAt) ==
    IF i > Len(subnet_specs)
        THEN Outcome(c, TRUE, subnets_status, made)
    ELSE LET r == EnsureSubnet(c, network_id, subnet_specs[i], Len(made) + 1 = failAt)
         IN  IF ~r.ok
                 THEN Outcome(r.cloud, FALSE, <<>>, made \o r.calls)
             ELSE EnsureSubnets(r.cloud, network_id, subnet_specs, i + 1,
                                Append(subnets_status, r.ret), made \o r.calls, failAt)

\* a slip: the subnets of the existing network are left out of the status
EnsureExisting_NoSubnets(c, existing) ==
    Outcome(c, TRUE, [networkId |-> existing.id, subnets |-> <<>>], <<>>)

\* ensure_provider_network, lines 29-36: the network exists
EnsureExisting(c, existing) ==
    Outcome(c, TRUE,
            [networkId |-> existing.id, subnets |-> GetSubnetStatuses(c, existing.id)],
            <<>>)

\* a slip: the id of the object created last is returned as networkId
EnsureCreatedReturn_LastCreated(network, subnets_status) ==
    [networkId |-> IF subnets_status = <<>> THEN network.id
                   ELSE subnets_status[Len(subnets_status)].subnetId,
     subnets |-> subnets_status]

\* ensure_provider_network, lines 56-59: the value returned after creation
EnsureCreatedReturn(network, subnets_status) ==
    [networkId |-> network.id, subnets |-> subnets_status]

\* ensure_provider_network, lines 38-59: create the network, then its subnets
EnsureCreate(c, spec, failAt) ==
    LET name == spec["name"]
        network_type == Get(spec, "providerNetworkType", "flat")
        call == [call |-> "create_provider_network", name |-> name,
                 raised |-> (failAt = 1)]
        network == NewNetwork(c, name, network_type)
        r == EnsureSubnets(CreateProviderNetwork(c, name, network_type), network.id,
                           Get(spec, "subnets", <<>>), 1, <<>>, <<call>>, failAt)
    IN  IF failAt = 1
            THEN Outcome(c, FALSE, <<>>, <<call>>)
        ELSE IF ~r.ok
            THEN r
        ELSE Outcome(r.cloud, TRUE, EnsureCreatedReturn(network, r.ret), r.calls)

\* ensure_provider_network(client, spec)
EnsureProviderNetwork(c, spec, failAt) ==
    LET name == spec["name"]
        existing == GetNetworkByName(c, name)
    IN  IF existing # <<>>
            THEN EnsureExisting(c, existing[1])
            ELSE EnsureCreate(c, spec, failAt)

\* a slip: the default of enableDhcp taken as False
WantedDhcp_DefaultFalse(spec) == Get(spec, "enableDhcp", FALSE)

\* update_subnet_properties, line 137: spec.get("enableDhcp", True)
WantedDhcp(spec) == Get(spec, "enableDhcp", TRUE)

\* a slip: is_dhcp_enabled passed whether it differs or not
DhcpDiffers_Always(existing, spec) == TRUE

\* update_subnet_properties, lines 138, 142, 145-150: which attributes differ
DhcpDiffers(existing, spec) == existing.is_dhcp_enabled # WantedDhcp(spec)

DnsDiffers(existing, spec) ==
    /\ "dnsNameservers" \in DOMAIN spec
    /\ existing.dns_nameservers # spec["dnsNameservers"]

PoolsDiffer(existing, spec) ==
    /\ "allocationPools" \in DOMAIN spec
    /\ existing.allocation_pools # StartEndPairs(spec["allocationPools"])

\* update_subnet_properties, lines 135-151: the kwargs dict
SubnetKwargs(existing, spec) ==
    LET keys == {k \in {"is_dhcp_enabled", "dns_nameservers", "allocation_pools"} :
                    \/ k = "is_dhcp_enabled" /\ DhcpDiffers(existing, spec)
                    \/ k = "dns_nameservers" /\ DnsDiffers(existing, spec)
                    \/ k = "allocation_pools" /\ PoolsDiffer(existing, spec)}
    IN  [k \in keys |->
            CASE k = "is_dhcp_enabled" -> WantedDhcp(spec)
              [] k = "dns_nameservers" -> spec["dnsNameservers"]
              [] k = "allocation_pools" -> StartEndPairs(spec["allocationPools"])]

\* a slip: a subnet that is not found is created instead of passed over
UpdateOne_CreatesMissing(c, network_id, spec, raises) ==
    LET name == spec["name"]
        existing == GetSubnet(c, name, network_id)
        kwargs == SubnetKwargs(existing[1], spec)
        call == [call |-> "update_subnet", id |-> existing[1].id, kwargs |-> kwargs,
                 raised |-> raises]
        entry == <<[name |-> name, subnetId |-> existing[1].id]>>
        created == EnsureSubnet(c, network_id, spec, raises)
    IN  IF existing = <<>>
            THEN Outcome(created.cloud, created.ok,
                         IF created.ok THEN <<created.ret>> ELSE <<>>, created.calls)
        ELSE IF DOMAIN kwargs = {}
            THEN Outcome(c, TRUE, entry, <<>>)
        ELSE IF raises
            THEN Outcome(c, FALSE, <<>>, <<call>>)
        ELSE Outcome(UpdateSubnet(c, existing[1].id, kwargs), TRUE, entry, <<call>>)

\* update_subnet_properties, lines 129-159: one turn of the loop; ret is the
\* entry appended to results, if any
UpdateOne(c, network_id, spec, raises) ==
    LET name == spec["name"]
        existing == GetSubnet(c, name, network_id)
        kwargs == SubnetKwargs(existing[1], spec)
        call == [call |-> "update_subnet", id |-> existing[1].id, kwargs |-> kwargs,
                 raised |-> raises]
        entry == <<[name |-> name, subnetId |-> existing[1].id]>>
    IN  IF existing = <<>>
            THEN Outcome(c, TRUE, <<>>, <<>>)
        ELSE IF DOMAIN kwargs = {}
            THEN Outcome(c, TRUE, entry, <<>>)
        ELSE IF raises
            THEN Outcome(c, FALSE, <<>>, <<call>>)
        ELSE Outcome(UpdateSubnet(c, existing[1].id, kwargs), TRUE, entry, <<call>>)

\* update_subnet_properties(client, network_id, subnet_specs)
RECURSIVE UpdateSubnets(_, _, _, _, _, _, _)
UpdateSubnets(c, network_id, subnet_specs, i, results, made, failAt) ==
    IF i > Len(subnet_specs)
        THEN Outcome(c, TRUE, results, made)
    ELSE LET r == UpdateOne(c, network_id, subnet_specs[i], Len(made) + 1 = failAt)
         IN  IF ~r.ok
                 THEN Outcome(r.cloud, FALSE, <<>>, made \o r.calls)
             ELSE UpdateSubnets(r.cloud, network_id, subnet_specs, i + 1,
                                results \o r.ret, made \o r.calls, failAt)

UpdateSubnetProperties(c, network_id, subnet_specs, failAt) ==
    UpdateSubnets(c, network_id, subnet_specs, 1, <<>>, <<>>, failAt)

\* a slip: the loop ends at the first delete_subnet that raises
RECURSIVE DeleteSubnets_StopAtFailure(_, _, _, _, _)
DeleteSubnets_StopAtFailure(c, subnet_ids, i, made, raising) ==
    IF i > Len(subnet_ids)
        THEN Outcome(c, TRUE, <<>>, made)
    ELSE LET raises == (Len(made) + 1) \in raising
             call == [call |-> "delete_subnet", id |-> subnet_ids[i], raised |-> raises]
         IN  IF raises
                 THEN Outcome(c, TRUE, <<>>, Append(made, call))
                 ELSE DeleteSubnets_StopAtFailure(DeleteSubnet(c, subnet_ids[i]),
                                                  subnet_ids, i + 1, Append(made, call), raising)

\* delete_provider_network, lines 195-199: delete_subnet for each id, a failure
\* logged and passed over; `raising` holds the numbers of the calls that raise
RECURSIVE DeleteSubnets(_, _, _, _, _)
DeleteSubnets(c, subnet_ids, i, made, raising) ==
    IF i > Len(subnet_ids)
        THEN Outcome(c, TRUE, <<>>, made)
    ELSE LET raises == (Len(made) + 1) \in raising
             call == [call |-> "delete_subnet", id |-> subnet_ids[i], raised |-> raises]
         IN  DeleteSubnets(IF raises THEN c ELSE DeleteSubnet(c, subnet_ids[i]),
                           subnet_ids, i + 1, Append(made, call), raising)

\* a slip: the network is deleted before its subnets
DeleteProviderNetwork_NetworkFirst(c, network_id, subnet_ids, raising) ==
    LET raises == 1 \in raising
        call == [call |-> "delete_network", id |-> network_id, raised |-> raises]
        c1 == IF raises THEN c ELSE DeleteNetwork(c, network_id)
        d == IF subnet_ids # <<>> /\ subnet_ids[1] # <<>>
                THEN DeleteSubnets(c1, subnet_ids[1], 1, <<call>>, raising)
                ELSE Outcome(c1, TRUE, <<>>, <<call>>)
    IN  Outcome(d.cloud, ~raises, <<>>, d.calls)

\* delete_provider_network(client, network_id, subnet_ids=None)
DeleteProviderNetwork(c, network_id, subnet_ids, raising) ==
    LET d == IF subnet_ids # <<>> /\ subnet_ids[1] # <<>>
                THEN DeleteSubnets(c, subnet_ids[1], 1, <<>>, raising)
                ELSE Outcome(c, TRUE, <<>>, <<>>)
        raises == (Len(d.calls) + 1) \in raising
        call == [call |-> "delete_network", id |-> network_id, raised |-> raises]
    IN  IF raises
            THEN Outcome(d.cloud, FALSE, <<>>, Append(d.calls, call))
            ELSE Outcome(DeleteNetwork(d.cloud, network_id), TRUE, <<>>, Append(d.calls, call))

\* get_provider_network_info(client, name)
GetProviderNetworkInfo(c, name) ==
    LET network == GetNetworkByName(c, name)
    IN  IF network = <<>>
            THEN Outcome(c, TRUE, <<>>, <<>>)
            ELSE Outcome(c, TRUE,
                         <<[network_id |-> network[1].id, name |-> network[1].name,
                            subnets |-> GetSubnetStatuses(c, network[1].id)]>>,
                         <<>>)

---------------------------------------------------------------------------
(* Inputs *)

SubnetSpecs ==
    { [name |-> "a", cidr |-> "10.0.1.0/24"],
      [name |-> "a", cidr |-> "10.0.1.0/24", enableDhcp |-> FALSE,
       dnsNameservers |-> <<"8.8.8.8">>,
       allocationPools |-> <<[start |-> "p10", end |-> "p20", comment |-> "x"]>>],
      [name |-> "b", cidr |-> "10.0.2.0/24"],
      [name |-> "b", cidr |-> "10.0.2.0/24", enableDhcp |-> FALSE] }

\* lists of subnet specifications, each subnet named once
SubnetSpecLists ==
    {<<>>} \cup {<<s>> : s \in SubnetSpecs}
           \cup {l \in {<<s, t>> : s \in SubnetSpecs, t \in SubnetSpecs} :
                     /\ l[1]["name"] # l[2]["name"]
                     /\ l[1]["name"] = "b" => "enableDhcp" \in DOMAIN l[1] \cap DOMAIN l[2]}

NetworkSpecs ==
    {[name |-> "n1"]}
    \cup {[name |-> "n1", subnets |-> l] : l \in SubnetSpecLists}
    \cup {[name |-> "n2", providerNetworkType |-> "vlan", subnets |-> l] :
             l \in {m \in SubnetSpecLists : Len(m) <= 1}}

\* the mutating call of an invocation that raises: none, or one of the first
FailChoices == 0..3

\* subnet_ids of delete_provider_network: None, or a list of distinct ids
SubnetIdLists ==
    {<<>>, <<<<>>>>} \cup {<< <<i>> >> : i \in SubIds}
                     \cup {l \in {<< <<i, j>> >> : i \in SubIds, j \in SubIds} :
                               l[1][1] # l[1][2]}

\* which of the (at most three) client calls of a deletion raise
RaisingChoices == SUBSET (1..3)

InBounds(c) == c.nextNet <= MaxNetIds + 1 /\ c.nextSub <= MaxSubIds + 1

---------------------------------------------------------------------------
(* The operator's calls, one at a time *)

Procs == {1, 2}
Idle == [pc |-> "idle", spec |-> <<>>, existing |-> <<>>, network |-> <<>>,
         i |-> 0, subnets_status |-> <<>>, ret |-> <<>>]

Init ==
    /\ cloud = EmptyCloud
    /\ op = "none"
    /\ arg = <<>>
    /\ pre = EmptyCloud
    /\ ok = TRUE
    /\ ret = <<>>
    /\ calls = <<>>
    /\ first = <<>>
    /\ procs = [p \in Procs |-> Idle]

\* function `name` runs on arguments a with outcome r
Ran(name, a, r) ==
    /\ InBounds(r.cloud)
    /\ cloud' = r.cloud
    /\ op' = name
    /\ arg' = a
    /\ pre' = cloud
    /\ ok' = r.ok
    /\ ret' = r.ret
    /\ calls' = r.calls
    /\ UNCHANGED procs

Ensure ==
    /\ op = "none"
    /\ first' = <<>>
    /\ \E spec \in NetworkSpecs, failAt \in FailChoices :
          Ran("ensure", spec, EnsureProviderNetwork(cloud, spec, failAt))

Update ==
    /\ op = "none"
    /\ first' = <<>>
    /\ \E network_id \in NetIds, subnet_specs \in SubnetSpecLists, failAt \in FailChoices :
          Ran("update", [network_id |-> network_id, subnet_specs |-> subnet_specs],
              UpdateSubnetProperties(cloud, network_id, subnet_specs, failAt))

Delete ==
    /\ op = "none"
    /\ first' = <<>>
    /\ \E network_id \in NetIds, subnet_ids \in SubnetIdLists, raising \in RaisingChoices :
          Ran("delete", [network_id |-> network_id, subnet_ids |-> subnet_ids],
              DeleteProviderNetwork(cloud, network_id, subnet_ids, raising))

Info ==
    /\ op = "none"
    /\ first' = <<>>
    /\ \E name \in NetNames :
          Ran("info", name, GetProviderNetworkInfo(cloud, name))

\* the caller reconciles again: the same call, on the same arguments, right
\* after one that returned
EnsureAgain ==
    /\ op = "ensure" /\ ok /\ first = <<>>
    /\ first' = <<[ret |-> ret, calls |-> calls]>>
    /\ \E failAt \in FailChoices :
          Ran("ensure", arg, EnsureProviderNetwork(cloud, arg, failAt))

UpdateAgain ==
    /\ op = "update" /\ ok /\ first = <<>>
    /\ first' = <<[ret |-> ret, calls |-> calls]>>
    /\ \E failAt \in FailChoices :
          Ran("update", arg,
              UpdateSubnetProperties(cloud, arg.network_id, arg.subnet_specs, failAt))

\* the function's frame is gone; the cloud is what stays
Return ==
    /\ op # "none"
    /\ op' = "none"
    /\ arg' = <<>>
    /\ pre' = EmptyCloud
    /\ ok' = TRUE
    /\ ret' = <<>>
    /\ calls' = <<>>
    /\ first' = <<>>
    /\ UNCHANGED <<cloud, procs>>

Next == Ensure \/ Update \/ Delete \/ Info \/ EnsureAgain \/ UpdateAgain \/ Return

Spec == Init /\ [][Next]_vars

---------------------------------------------------------------------------
(* ensure_provider_network called by two handlers at once: each invocation  *)
(* advances by one client call, and the calls of the two interleave.        *)

ConcSpecs ==
    {s \in NetworkSpecs : s["name"] = "n1" /\ Get(s, "subnets", <<>>) = <<>>}
    \cup {s \in NetworkSpecs : "subnets" \in DOMAIN s /\ Len(s["subnets"]) = 1
                                 /\ DOMAIN s["subnets"][1] = {"name", "cidr"}}

\* lines 26-29: client.get_network_by_name(name)
CLookup(p) ==
    /\ procs[p].pc = "idle"
    /\ \E spec \in ConcSpecs :
          LET existing == GetNetworkByName(cloud, spec["name"])
          IN  procs' = [procs EXCEPT ![p] =
                  [Idle EXCEPT !.pc = IF existing # <<>> THEN "existing" ELSE "create",
                               !.spec = spec, !.existing = existing]]
    /\ UNCHANGED <<cloud, op, arg, pre, ok, ret, calls, first>>

\* lines 30-36: client.list_subnets(existing.id), and return
CReturnExisting(p) ==
    /\ procs[p].pc = "existing"
    /\ procs' = [procs EXCEPT ![p].pc = "done",
                              ![p].ret = EnsureExisting(cloud, procs[p].existing[1]).ret]
    /\ UNCHANGED <<cloud, op, arg, pre, ok, ret, calls, first>>

\* lines 39-48: client.create_provider_network(...), which may raise
CCreateNetwork(p) ==
    /\ procs[p].pc = "create"
    /\ LET name == procs[p].spec["name"]
           network_type == Get(procs[p].spec, "providerNetworkType", "flat")
           c == CreateProviderNetwork(cloud, name, network_type)
       IN  \/ /\ InBounds(c)
              /\ cloud' = c
              /\ procs' = [procs EXCEPT ![p].pc = "subnets", ![p].i = 1,
                               ![p].network = <<NewNetwork(cloud, name, network_type)>>]
           \/ /\ cloud' = cloud
              /\ procs' = [procs EXCEPT ![p].pc = "raised"]
    /\ UNCHANGED <<op, arg, pre, ok, ret, calls, first>>

\* lines 52-54: one turn of the loop, _ensure_subnet(client, network.id, subnet_spec)
CEnsureSubnet(p) ==
    /\ procs[p].pc = "subnets"
    /\ procs[p].i <= Len(Get(procs[p].spec, "subnets", <<>>))
    /\ \E raises \in BOOLEAN :
          LET r == EnsureSubnet(cloud, procs[p].network[1].id,
                                procs[p].spec["subnets"][procs[p].i], raises)
          IN  /\ InBounds(r.cloud)
              /\ cloud' = r.cloud
              /\ procs' = IF r.ok
                     THEN [procs EXCEPT ![p].i = @ + 1,
                                        ![p].subnets_status = Append(@, r.ret)]
                     ELSE [procs EXCEPT ![p].pc = "raised"]
    /\ UNCHANGED <<op, arg, pre, ok, ret, calls, first>>

\* lines 56-59: return
CReturnCreated(p) ==
    /\ procs[p].pc = "subnets"
    /\ procs[p].i > Len(Get(procs[p].spec, "subnets", <<>>))
    /\ procs' = [procs EXCEPT ![p].pc = "done",
                    ![p].ret = EnsureCreatedReturn(procs[p].network[1],
                                                   procs[p].subnets_status)]
    /\ UNCHANGED <<cloud, op, arg, pre, ok, ret, calls, first>>

NextConc ==
    \E p \in Procs :
        \/ CLookup(p)
        \/ CReturnExisting(p)
        \/ CCreateNetwork(p)
        \/ CEnsureSubnet(p)
        \/ CReturnCreated(p)

SpecConc == Init /\ [][NextConc]_vars

---------------------------------------------------------------------------
(* Properties *)

NamedNetworks(c, name) == {n \in c.networks : n.name = name}
SubnetsOn(c, network_id) == {s \in c.subnets : s.network_id = network_id}
CallsOf(kind) == {k \in 1..Len(calls) : calls[k].call = kind}
SubnetIdentities(c) == {<<s.id, s.name, s.network_id>> : s \in c.subnets}

\* C1: whenever ensure_provider_network returns, every subnet listed in
\* spec.subnets exists by name on the returned network, whatever the cloud
\* held before the call.
C1_SpecSubnetsExist ==
    (op = "ensure" /\ ok) =>
        \A i \in 1..Len(Get(arg, "subnets", <<>>)) :
            \E s \in SubnetsOn(cloud, ret.networkId) : s.name = arg["subnets"][i]["name"]

\* C2: whenever ensure_provider_network returns, a network named spec.name
\* exists and networkId is its id; if none existed before the call, exactly one
\* create_provider_network call was made and networkId is the id of the network
\* that call created.
C2_ReturnsNamedNetwork ==
    (op = "ensure" /\ ok) =>
        /\ \E n \in NamedNetworks(cloud, arg["name"]) : n.id = ret.networkId
        /\ NamedNetworks(pre, arg["name"]) = {} =>
              /\ Cardinality(CallsOf("create_provider_network")) = 1
              /\ ret.networkId \notin {n.id : n \in pre.networks}
              /\ {n.id : n \in cloud.networks} = {n.id : n \in pre.networks} \cup {ret.networkId}

C2_Witness ==
    /\ op = "ensure" /\ ok
    /\ NamedNetworks(pre, arg["name"]) = {}
    /\ pre.networks # {}
    /\ Len(ret.subnets) = 2

C5_SubnetsFirstNetworkLast ==
    op = "delete" =>
        LET ids == IF arg.subnet_ids = <<>> THEN <<>> ELSE arg.subnet_ids[1]
        IN  /\ Len(calls) = Len(ids) + 1
            /\ \A i \in 1..Len(ids) :
                  calls[i].call = "delete_subnet" /\ calls[i].id = ids[i]
            /\ calls[Len(calls)].call = "delete_network"
            /\ calls[Len(calls)].id = arg.network_id
            /\ Cardinality(CallsOf("delete_network")) = 1

C5_Witness ==
    /\ op = "delete"
    /\ arg.subnet_ids # <<>> /\ Len(arg.subnet_ids[1]) = 2
    /\ arg.subnet_ids[1][1] > arg.subnet_ids[1][2]
    /\ SubnetsOn(pre, arg.network_id) # {}
    /\ Len(calls) = 3

C7_SubnetFailuresSwallowed ==
    op = "delete" =>
        LET ids == IF arg.subnet_ids = <<>> THEN <<>> ELSE arg.subnet_ids[1]
            failed == {k \in CallsOf("delete_subnet") : calls[k].raised}
        IN  /\ Cardinality(CallsOf("delete_subnet")) = Len(ids)
            /\ \A k \in failed : k < Len(calls)
            /\ CallsOf("delete_network") # {}
            /\ ok = ~(\E k \in CallsOf("delete_network") : calls[k].raised)

C7_Witness ==
    /\ op = "delete" /\ ok
    /\ Len(calls) = 3
    /\ calls[1].raised /\ ~calls[2].raised
    /\ \E s \in pre.subnets : s.id = calls[2].id

\* C8: update_subnet_properties creates no subnet and deletes none; a spec whose
\* name has no subnet on the network is passed over, and the list returned has
\* one {name, subnetId} entry per spec whose subnet exists, in the order of
\* subnet_specs.
C8_UpdateSkipsMissing ==
    op = "update" =>
        LET specs == arg.subnet_specs
            Found(i) == {s \in SubnetsOn(pre, arg.network_id) : s.name = specs[i]["name"]}
            found == {i \in 1..Len(specs) : Found(i) # {}}
            Nth(j) == CHOOSE i \in found : Cardinality({h \in found : h < i}) = j - 1
        IN  /\ \A k \in 1..Len(calls) : calls[k].call = "update_subnet"
            /\ SubnetIdentities(cloud) = SubnetIdentities(pre)
            /\ ok =>
                  /\ Len(ret) = Cardinality(found)
                  /\ \A j \in 1..Len(ret) :
                        /\ ret[j].name = specs[Nth(j)]["name"]
                        /\ \E s \in Found(Nth(j)) : ret[j].subnetId = s.id

C8_Witness ==
    /\ op = "update" /\ ok
    /\ Len(arg.subnet_specs) = 2
    /\ Len(ret) = 1
    /\ ret[1].name = arg.subnet_specs[2]["name"]
    /\ calls # <<>>

\* C9: after any interleaving of ensure_provider_network invocations for one
\* spec.name, at most one network of that name exists and every invocation
\* that returned gave the same networkId.
C9_OneNetworkPerName ==
    /\ \A n \in cloud.networks : \A m \in cloud.networks : n.name = m.name => n.id = m.id
    /\ \A p \in Procs : \A q \in Procs :
          (/\ procs[p].pc = "done" /\ procs[q].pc = "done"
           /\ procs[p].spec["name"] = procs[q].spec["name"])
              => procs[p].ret.networkId = procs[q].ret.networkId

====
